---- MODULE Spec2Model ----
(***************************************************************************)
(* CommonTermsQuery (src/queries/full-text-queries/common-terms-query.js). *)
(*                                                                         *)
(* One builder instance.  Its option bag `_queryOpts` is a finite function *)
(* from the keys that are present (own properties) to JavaScript values.   *)
(* JavaScript values are records tagged with their kind; strings are       *)
(* sequences of one-character strings so that toLowerCase is computed      *)
(* character by character.  Values that can carry sub-keys (plain objects, *)
(* arrays, functions) hold their properties in `props` and remember in     *)
(* `site` who allocated them, which is what is left of object identity.    *)
(***************************************************************************)
EXTENDS Integers, Sequences, FiniteSets, TLC

VARIABLES
    base,       \* what the base classes store outside the option bag
    queryOpts,  \* this._queryOpts
    out,        \* console messages written by the most recent call
    last,       \* the most recent call: [op, arg, result]
    hist,       \* history: setter name -> what Remember keeps of its latest call that returned
    direct,     \* history: has the caller assigned minimum_should_match itself
    rep         \* history: the most recent call repeats the one before it

vars == <<base, queryOpts, out, last, hist, direct, rep>>

----------------------------------------------------------------------------
(* Bounds of the model *)

\* number arguments are 1 .. MaxNum
MaxNum == 1

----------------------------------------------------------------------------
(* JavaScript values *)

Num(n)  == [kind |-> "number", num |-> n]
Str(cs) == [kind |-> "string", chars |-> cs]
Bool(b) == [kind |-> "boolean", bool |-> b]
Null == [kind |-> "null"]
Undefined == [kind |-> "undefined"]
Obj(kind, site, props) == [kind |-> kind, site |-> site, props |-> props]

\* the object literal {} evaluated inside the builder
EmptyObject == Obj("object", "builder", <<>>)

\* obj[k] = v on a finite function: k is added or overwritten, the rest stays
Put(f, k, v) == [x \in (DOMAIN f) \cup {k} |-> IF x = k THEN v ELSE f[x]]

\* o.k = v on a value that carries properties
SetProp(o, k, v) == [o EXCEPT !.props = Put(o.props, k, v)]

\* typeof
TypeOf(v) ==
    CASE v.kind = "number" -> "number"
      [] v.kind = "string" -> "string"
      [] v.kind = "boolean" -> "boolean"
      [] v.kind = "undefined" -> "undefined"
      [] v.kind = "function" -> "function"
      [] OTHER -> "object"

IsNil(v) == v.kind \in {"null", "undefined"}

\* lodash.isobject with a plain-object test instead
IsObject_PlainOnly(v) == v.kind = "object"

\* lodash.isobject: value != null && (type == 'object' || type == 'function')
IsObject(v) == ~IsNil(v) /\ TypeOf(v) \in {"object", "function"}

\* lodash.has(object, key): key is an own property, whatever its value
Has(opts, k) == k \in DOMAIN opts

UpperChars == <<"A","B","C","D","E","F","G","H","I","J","K","L","M",
                "N","O","P","Q","R","S","T","U","V","W","X","Y","Z">>
LowerChars == <<"a","b","c","d","e","f","g","h","i","j","k","l","m",
                "n","o","p","q","r","s","t","u","v","w","x","y","z">>

ToLowerChar(c) ==
    IF \E i \in 1..Len(UpperChars) : UpperChars[i] = c
    THEN LowerChars[CHOOSE i \in 1..Len(UpperChars) : UpperChars[i] = c]
    ELSE c

\* String.prototype.toLowerCase
ToLowerCase(cs) == [i \in 1..Len(cs) |-> ToLowerChar(cs[i])]

----------------------------------------------------------------------------
(* Console *)

ES_REF_URL == "https://www.elastic.co/guide/en/elasticsearch/reference/current/query-dsl-common-terms-query.html"

Log(text, arg)     == [stream |-> "log", text |-> text, arg |-> arg]
ConsoleWarn(text, arg) == [stream |-> "warn", text |-> text, arg |-> arg]

\* _warn(msg): console.warn(`[${this.constructor.name}] ${msg}`)
Warn(msg) == ConsoleWarn("[CommonTermsQuery] ", msg)

\* _warnMixedRepr that forgets the second message
WarnMixedRepr_Once == <<Warn("Do not mix with other representation!")>>

WarnMixedRepr ==
    <<Warn("Do not mix with other representation!"), Warn("Overwriting.")>>

----------------------------------------------------------------------------
(* The methods, as functions from the option bag to                        *)
(* [opts: the bag afterwards, out: console output, result: "this"/"Error"] *)

Ret(opts, o, result) == [opts |-> opts, out |-> o, result |-> result]

\* _checkMinMatchRepr that warns and overwrites whenever the key exists
CheckMinMatchRepr_WarnIfPresent(opts) ==
    IF ~Has(opts, "minimum_should_match")
    THEN [opts |-> Put(opts, "minimum_should_match", EmptyObject), out |-> <<>>]
    ELSE [opts |-> Put(opts, "minimum_should_match", EmptyObject), out |-> WarnMixedRepr]

CheckMinMatchRepr(opts) ==
    IF ~Has(opts, "minimum_should_match")
    THEN [opts |-> Put(opts, "minimum_should_match", EmptyObject), out |-> <<>>]
    ELSE IF ~IsObject(opts["minimum_should_match"])
    THEN [opts |-> Put(opts, "minimum_should_match", EmptyObject), out |-> WarnMixedRepr]
    ELSE [opts |-> opts, out |-> <<>>]

\* cutoffFrequency that rebuilds the bag around its own key
CutoffFrequency_Rebuild(opts, frequency) ==
    Ret(Put(<<>>, "cutoff_frequency", frequency), <<>>, "this")

cutoffFrequency(opts, frequency) ==
    Ret(Put(opts, "cutoff_frequency", frequency), <<>>, "this")

OperatorOk(operatorLower) ==
    ~(operatorLower # <<"a","n","d">> /\ operatorLower # <<"o","r">>)

\* lowFreqOperator that writes before it validates
LowFreqOperator_WriteFirst(opts, operator) ==
    LET operatorLower == ToLowerCase(operator.chars) IN
    IF ~OperatorOk(operatorLower)
    THEN Ret(Put(opts, "low_freq_operator", Str(operatorLower)),
             <<Log("See ", ES_REF_URL),
               ConsoleWarn("Got 'low_freq_operator' - ", operator)>>,
             "Error")
    ELSE Ret(Put(opts, "low_freq_operator", Str(operatorLower)), <<>>, "this")

\* lowFreqOperator that stores the operator as given
LowFreqOperator_Raw(opts, operator) ==
    LET operatorLower == ToLowerCase(operator.chars) IN
    IF ~OperatorOk(operatorLower)
    THEN Ret(opts,
             <<Log("See ", ES_REF_URL),
               ConsoleWarn("Got 'low_freq_operator' - ", operator)>>,
             "Error")
    ELSE Ret(Put(opts, "low_freq_operator", operator), <<>>, "this")

lowFreqOperator(opts, operator) ==
    LET operatorLower == ToLowerCase(operator.chars) IN
    IF ~OperatorOk(operatorLower)
    THEN Ret(opts,
             <<Log("See ", ES_REF_URL),
               ConsoleWarn("Got 'low_freq_operator' - ", operator)>>,
             "Error")
    ELSE Ret(Put(opts, "low_freq_operator", Str(operatorLower)), <<>>, "this")

\* highFreqOperator that writes before it validates
HighFreqOperator_WriteFirst(opts, operator) ==
    LET operatorLower == ToLowerCase(operator.chars) IN
    IF ~OperatorOk(operatorLower)
    THEN Ret(Put(opts, "high_freq_operator", Str(operatorLower)),
             <<Log("See ", ES_REF_URL),
               ConsoleWarn("Got 'high_freq_operator' - ", operator)>>,
             "Error")
    ELSE Ret(Put(opts, "high_freq_operator", Str(operatorLower)), <<>>, "this")

highFreqOperator(opts, operator) ==
    LET operatorLower == ToLowerCase(operator.chars) IN
    IF ~OperatorOk(operatorLower)
    THEN Ret(opts,
             <<Log("See ", ES_REF_URL),
               ConsoleWarn("Got 'high_freq_operator' - ", operator)>>,
             "Error")
    ELSE Ret(Put(opts, "high_freq_operator", Str(operatorLower)), <<>>, "this")

\* lowFreq that assigns a new object holding only low_freq
LowFreq_Replace(opts, lowFreqMinMatch) ==
    LET c == CheckMinMatchRepr(opts) IN
    Ret(Put(c.opts, "minimum_should_match",
            SetProp(EmptyObject, "low_freq", lowFreqMinMatch)),
        c.out, "this")

lowFreq(opts, lowFreqMinMatch) ==
    LET c == CheckMinMatchRepr(opts) IN
    Ret(Put(c.opts, "minimum_should_match",
            SetProp(c.opts["minimum_should_match"], "low_freq", lowFreqMinMatch)),
        c.out, "this")

\* highFreq that assigns a new object holding only high_freq
HighFreq_Replace(opts, highFreqMinMatch) ==
    LET c == CheckMinMatchRepr(opts) IN
    Ret(Put(c.opts, "minimum_should_match",
            SetProp(EmptyObject, "high_freq", highFreqMinMatch)),
        c.out, "this")

highFreq(opts, highFreqMinMatch) ==
    LET c == CheckMinMatchRepr(opts) IN
    Ret(Put(c.opts, "minimum_should_match",
            SetProp(c.opts["minimum_should_match"], "high_freq", highFreqMinMatch)),
        c.out, "this")

\* disableCoord that flips a flag already stored instead of assigning it
DisableCoord_Flip(opts, enable) ==
    IF Has(opts, "disable_coord") /\ opts["disable_coord"] = enable
    THEN Ret(Put(opts, "disable_coord", Undefined), <<>>, "this")
    ELSE Ret(Put(opts, "disable_coord", enable), <<>>, "this")

disableCoord(opts, enable) ==
    Ret(Put(opts, "disable_coord", enable), <<>>, "this")

----------------------------------------------------------------------------
(* Inputs *)

Percent30 == Str(<<"3","0","%">>)

\* arguments of the setters that store verbatim
FreqVals == {Num(n) : n \in 1..MaxNum} \cup {Percent30}
MinMatchVals == {Num(2), Percent30}
CoordVals == {Bool(TRUE), Bool(FALSE)}

\* arguments of the operator setters
ValidOperators ==
    { <<"a","n","d">>, <<"A","N","D">>, <<"O","r">> }
InvalidOperators ==
    { <<>>, <<"X","o","r">> }
Operators == {Str(cs) : cs \in ValidOperators \cup InvalidOperators}

\* what a caller may assign to _queryOpts.minimum_should_match by hand
DirectVals ==
    { Num(2), Str(<<"7","5","%">>), Bool(FALSE), Null, Undefined,
      Obj("object", "caller", Put(<<>>, "other", Num(7))),
      Obj("array", "caller", Put(<<>>, "0", Num(7))),
      Obj("function", "caller", <<>>) }

----------------------------------------------------------------------------
(* The state machine *)

\* new CommonTermsQuery(field, queryString)
Init ==
    /\ base = [queryType |-> "common", field |-> Str(<<"t">>)]
    /\ queryOpts = Put(<<>>, "query", Str(<<"q">>))
    /\ out = <<>>
    /\ last = [op |-> "new", arg |-> Undefined, result |-> "this"]
    /\ hist = <<>>
    /\ direct = FALSE
    /\ rep = FALSE

\* the history keeps the argument of a setter that owns a top-level key, and of
\* the two sub-key setters only that they returned
Remember(op, arg) == IF op \in {"lowFreq", "highFreq"} THEN Undefined ELSE arg

\* one call of a method: r is what the method computes from the current bag
Call(op, arg, r) ==
    /\ queryOpts' = r.opts
    /\ out' = r.out
    /\ last' = [op |-> op, arg |-> arg, result |-> r.result]
    /\ hist' = IF r.result = "Error" THEN hist ELSE Put(hist, op, Remember(op, arg))
    /\ rep' = (last.op = op /\ last.arg = arg /\ last.result # "Error"
               /\ r.result # "Error")
    /\ UNCHANGED <<base, direct>>

CutoffFrequency ==
    \E v \in FreqVals : Call("cutoffFrequency", v, cutoffFrequency(queryOpts, v))

LowFreqOperator ==
    \E o \in Operators : Call("lowFreqOperator", o, lowFreqOperator(queryOpts, o))

HighFreqOperator ==
    \E o \in Operators : Call("highFreqOperator", o, highFreqOperator(queryOpts, o))

LowFreq ==
    \E v \in MinMatchVals : Call("lowFreq", v, lowFreq(queryOpts, v))

HighFreq ==
    \E v \in MinMatchVals : Call("highFreq", v, highFreq(queryOpts, v))

DisableCoord ==
    \E v \in CoordVals : Call("disableCoord", v, disableCoord(queryOpts, v))

\* the caller assigns _queryOpts.minimum_should_match without going through a setter
DirectSet ==
    \E v \in DirectVals :
        /\ queryOpts' = Put(queryOpts, "minimum_should_match", v)
        /\ out' = <<>>
        /\ last' = [op |-> "direct", arg |-> v, result |-> "this"]
        /\ direct' = TRUE
        /\ rep' = FALSE
        /\ UNCHANGED <<base, hist>>

Next ==
    \/ CutoffFrequency
    \/ LowFreqOperator
    \/ HighFreqOperator
    \/ LowFreq
    \/ HighFreq
    \/ DisableCoord
    \/ DirectSet

Spec == Init /\ [][Next]_vars

----------------------------------------------------------------------------
(* Vocabulary of the properties *)

MSM == "minimum_should_match"

Setters ==
    {"cutoffFrequency", "lowFreqOperator", "highFreqOperator",
     "lowFreq", "highFreq", "disableCoord"}

MinMatchSetters == {"lowFreq", "highFreq"}

\* the top-level key a setter writes
KeyOf(op) ==
    CASE op = "cutoffFrequency" -> "cutoff_frequency"
      [] op = "lowFreqOperator" -> "low_freq_operator"
      [] op = "highFreqOperator" -> "high_freq_operator"
      [] op = "disableCoord" -> "disable_coord"
      [] OTHER -> MSM

\* the sub-key of minimum_should_match a setter writes
SubKeyOf(op) == IF op = "lowFreq" THEN "low_freq" ELSE "high_freq"

\* The data model knows two shapes for minimum_should_match: a scalar
\* (number, string, boolean, null, undefined) or a value that carries sub-keys.
Scalar(v) == v.kind \in {"number", "string", "boolean", "null", "undefined"}
Mapping(v) == v.kind \in {"object", "array", "function"}

\* g agrees with f on every key but k: same keys, same values
SameExcept(f, g, k) ==
    /\ (DOMAIN g) \ {k} = (DOMAIN f) \ {k}
    /\ \A x \in (DOMAIN f) \ {k} : g[x] = f[x]

\* new is the value old with at most the sub-key sub written
Kept(old, new, sub) ==
    /\ new.kind = old.kind
    /\ new.site = old.site
    /\ SameExcept(old.props, new.props, sub)

AndOr == { <<"a","n","d">>, <<"o","r">> }

Inputs(op) ==
    CASE op = "cutoffFrequency" -> FreqVals
      [] op \in {"lowFreqOperator", "highFreqOperator"} -> Operators
      [] op \in MinMatchSetters -> MinMatchVals
      [] OTHER -> CoordVals

Apply(op, opts, arg) ==
    CASE op = "cutoffFrequency" -> cutoffFrequency(opts, arg)
      [] op = "lowFreqOperator" -> lowFreqOperator(opts, arg)
      [] op = "highFreqOperator" -> highFreqOperator(opts, arg)
      [] op = "lowFreq" -> lowFreq(opts, arg)
      [] op = "highFreq" -> highFreq(opts, arg)
      [] OTHER -> disableCoord(opts, arg)

----------------------------------------------------------------------------
\* C1: a call of lowFreqOperator or highFreqOperator with a string whose
\* lowercase form is neither 'and' nor 'or' raises an error and leaves the whole
\* option bag exactly as it was before the call, whatever the bag held.
C1_InvalidOperatorRejected ==
    [][ (/\ last'.op \in {"lowFreqOperator", "highFreqOperator"}
         /\ ToLowerCase(last'.arg.chars) \notin AndOr)
        => (last'.result = "Error" /\ queryOpts' = queryOpts) ]_vars

C1_Witness ==
    /\ last.op = "lowFreqOperator"
    /\ last.arg = Str(<<"X","o","r">>)
    /\ last.result = "Error"
    /\ Has(queryOpts, "low_freq_operator")
    /\ Has(queryOpts, MSM)

\* C2: low_freq_operator is absent or equals the lowercase form of the argument
\* of the most recent lowFreqOperator call that returned, and is 'and' or 'or';
\* likewise high_freq_operator; and every case variant of 'and'/'or' is accepted
\* and stored.
C2_OperatorNormalized ==
    /\ \A op \in {"lowFreqOperator", "highFreqOperator"} :
          /\ Has(queryOpts, KeyOf(op)) <=> op \in DOMAIN hist
          /\ Has(queryOpts, KeyOf(op)) =>
                /\ queryOpts[KeyOf(op)] = Str(ToLowerCase(hist[op].chars))
                /\ queryOpts[KeyOf(op)] \in {Str(cs) : cs \in AndOr}
    /\ (/\ last.op \in {"lowFreqOperator", "highFreqOperator"}
        /\ ToLowerCase(last.arg.chars) \in AndOr)
       => (last.result = "this" /\ hist[last.op] = last.arg)

C2_Witness ==
    /\ last.op = "highFreqOperator"
    /\ last.arg = Str(<<"O","r">>)
    /\ Has(queryOpts, "high_freq_operator")
    /\ queryOpts["high_freq_operator"] = Str(<<"o","r">>)
    /\ "lowFreqOperator" \in DOMAIN hist
    /\ hist["lowFreqOperator"] = Str(<<"A","N","D">>)
    /\ queryOpts["low_freq_operator"] = Str(<<"a","n","d">>)

\* C3: from a bag whose minimum_should_match is absent or a mapping, lowFreq(a)
\* then highFreq(b) and highFreq(b) then lowFreq(a) leave the same
\* minimum_should_match, in which low_freq = a and high_freq = b.
C3_MinMatchSettersCommute ==
    (~Has(queryOpts, MSM) \/ Mapping(queryOpts[MSM])) =>
        \A a \in MinMatchVals : \A b \in MinMatchVals :
            LET lh == highFreq(lowFreq(queryOpts, a).opts, b).opts[MSM]
                hl == lowFreq(highFreq(queryOpts, b).opts, a).opts[MSM]
            IN  /\ lh = hl
                /\ "low_freq" \in DOMAIN lh.props /\ lh.props["low_freq"] = a
                /\ "high_freq" \in DOMAIN lh.props /\ lh.props["high_freq"] = b

C3_Witness ==
    /\ last.op = "lowFreq"
    /\ last.arg = Num(2)
    /\ ~direct
    /\ "highFreq" \in DOMAIN hist
    /\ queryOpts[MSM].props = Put(Put(<<>>, "high_freq", Percent30), "low_freq", Num(2))

\* C4: when minimum_should_match is present with a scalar value, a call of
\* lowFreq(v) or highFreq(v) writes exactly two warnings and leaves
\* minimum_should_match a fresh mapping holding only the sub-key just set.
C4_ScalarOverwritten ==
    [][ (/\ last'.op \in MinMatchSetters
         /\ Has(queryOpts, MSM)
         /\ Scalar(queryOpts[MSM]))
        => (/\ Len(out') = 2
            /\ \A i \in 1..Len(out') : out'[i].stream = "warn"
            /\ queryOpts'[MSM] =
                 Obj("object", "builder", Put(<<>>, SubKeyOf(last'.op), last'.arg))) ]_vars

C4_Witness ==
    /\ last.op = "highFreq"
    /\ Len(out) = 2
    /\ "lowFreq" \in DOMAIN hist
    /\ queryOpts[MSM] = Obj("object", "builder", Put(<<>>, "high_freq", last.arg))

\* C5: when minimum_should_match already is a mapping, lowFreq(v) changes only
\* its low_freq sub-key and highFreq(v) only its high_freq sub-key: every other
\* sub-key keeps its value, the mapping stays the same object, nothing is warned.
C5_MappingMergedInto ==
    [][ (/\ last'.op \in MinMatchSetters
         /\ Has(queryOpts, MSM)
         /\ Mapping(queryOpts[MSM]))
        => (/\ out' = <<>>
            /\ Kept(queryOpts[MSM], queryOpts'[MSM], SubKeyOf(last'.op))
            /\ SubKeyOf(last'.op) \in DOMAIN queryOpts'[MSM].props
            /\ queryOpts'[MSM].props[SubKeyOf(last'.op)] = last'.arg) ]_vars

C5_Witness ==
    /\ last.op = "lowFreq"
    /\ out = <<>>
    /\ queryOpts[MSM].kind = "object"
    /\ queryOpts[MSM].site = "caller"
    /\ DOMAIN queryOpts[MSM].props = {"other", "high_freq", "low_freq"}
    /\ queryOpts[MSM].props["low_freq"] = last.arg

\* C6: a setter that completes without error returns the builder itself and
\* leaves every top-level key of the bag other than the one it writes (the
\* seeded entries included) present with its value.
C6_SetterFrame ==
    [][ (last'.op \in Setters /\ last'.result # "Error")
        => (/\ last'.result = "this"
            /\ SameExcept(queryOpts, queryOpts', KeyOf(last'.op))
            /\ Has(queryOpts', KeyOf(last'.op))
            /\ base' = base) ]_vars

C6_Witness ==
    /\ last.op = "disableCoord"
    /\ last.result = "this"
    /\ DOMAIN queryOpts =
         {"query", "cutoff_frequency", "low_freq_operator", "high_freq_operator",
          MSM, "disable_coord"}

\* C7: a lowFreq/highFreq call warns and discards the previous
\* minimum_should_match exactly when the slot held a scalar at that call;
\* after the call the slot is a mapping, and it stays one (so later calls warn
\* nothing and discard nothing) until the caller assigns the slot by hand.
C7_ConflictOnce ==
    [][ /\ last'.op \in MinMatchSetters =>
             /\ (out' # <<>>) <=> (Has(queryOpts, MSM) /\ Scalar(queryOpts[MSM]))
             /\ (Has(queryOpts, MSM) /\ ~Scalar(queryOpts[MSM]))
                   => Kept(queryOpts[MSM], queryOpts'[MSM], SubKeyOf(last'.op))
             /\ Has(queryOpts', MSM) /\ Mapping(queryOpts'[MSM])
        /\ (last'.op # "direct" /\ Has(queryOpts, MSM) /\ Mapping(queryOpts[MSM]))
             => (Has(queryOpts', MSM) /\ Mapping(queryOpts'[MSM])) ]_vars

C7_Witness ==
    /\ last.op = "highFreq"
    /\ out = <<>>
    /\ direct
    /\ queryOpts[MSM].site = "builder"
    /\ DOMAIN queryOpts[MSM].props = {"low_freq", "high_freq"}

\* C8: from a bag whose minimum_should_match is absent or a mapping, calling a
\* setter twice in succession with the same accepted argument leaves the bag
\* equal to the bag after the first call.
C8_SettersIdempotent ==
    (~Has(queryOpts, MSM) \/ Mapping(queryOpts[MSM])) =>
        \A op \in Setters : \A a \in Inputs(op) :
            LET once == Apply(op, queryOpts, a) IN
            once.result = "this" =>
                LET twice == Apply(op, once.opts, a) IN
                twice.result = "this" /\ twice.opts = once.opts

C8_Witness ==
    /\ rep
    /\ last.op = "disableCoord"
    /\ last.arg = Bool(TRUE)
    /\ queryOpts["disable_coord"] = Bool(TRUE)
    /\ Has(queryOpts, MSM)

\* C9: without direct manipulation, each option key is present exactly when its
\* setter (lowFreq or highFreq for minimum_should_match) has returned at least
\* once, no other key appears, and cutoff_frequency and disable_coord hold the
\* argument of the most recent cutoffFrequency / disableCoord call as given.
C9_OnlyKeysSet ==
    ~direct =>
        /\ DOMAIN queryOpts \subseteq {"query"} \cup {KeyOf(op) : op \in Setters}
        /\ \A op \in Setters \ MinMatchSetters :
              Has(queryOpts, KeyOf(op)) <=> op \in DOMAIN hist
        /\ Has(queryOpts, MSM) <=> (MinMatchSetters \cap DOMAIN hist # {})
        /\ \A op \in {"cutoffFrequency", "disableCoord"} :
              Has(queryOpts, KeyOf(op)) => queryOpts[KeyOf(op)] = hist[op]

C9_Witness ==
    /\ ~direct
    /\ last.op = "highFreqOperator"
    /\ last.result = "Error"
    /\ DOMAIN queryOpts = {"query", "cutoff_frequency", MSM}
    /\ queryOpts["cutoff_frequency"] = Percent30

\* C10: when minimum_should_match holds an array or a function, lowFreq/highFreq
\* warn nothing, keep the value and write their sub-key onto it; when the key is
\* absent or holds a number, string, boolean, null or undefined, the slot
\* becomes a fresh mapping holding only the sub-key.
C10_IsObjectGuard ==
    [][ last'.op \in MinMatchSetters =>
          /\ (Has(queryOpts, MSM) /\ queryOpts[MSM].kind \in {"array", "function"})
                => (/\ out' = <<>>
                    /\ queryOpts'[MSM] =
                         SetProp(queryOpts[MSM], SubKeyOf(last'.op), last'.arg))
          /\ (~Has(queryOpts, MSM)
                \/ queryOpts[MSM].kind \in {"number", "string", "boolean", "null", "undefined"})
                => queryOpts'[MSM] =
                     Obj("object", "builder", Put(<<>>, SubKeyOf(last'.op), last'.arg)) ]_vars

C10_Witness ==
    /\ last.op = "highFreq"
    /\ out = <<>>
    /\ queryOpts[MSM].kind = "array"
    /\ DOMAIN queryOpts[MSM].props = {"0", "high_freq"}
    /\ queryOpts[MSM].props["high_freq"] = last.arg

====
